---- MODULE Spec2Model ----
(***************************************************************************)
(* Model of demetsiiify's asynchronous import pipeline: the job queue and  *)
(* job records kept in Redis, the rq worker with the application's         *)
(* exception handler, and the web handlers that submit jobs, poll their    *)
(* status, list the queue and stream status changes (blueprints.py).       *)
(*                                                                         *)
(* One action is one Redis command (or one MULTI/EXEC pipeline) together   *)
(* with the local computation around it, so that every interleaving of the *)
(* web processes and the worker processes on the shared store is explored. *)
(***************************************************************************)
EXTENDS Integers, Sequences, FiniteSets, TLC

\* ---------------------------------------------------------------- bounds
MaxJobs == 2
NumWorkers == 1
NumWeb == 2
MaxLen == 5

JobIds == 1..MaxJobs
Workers == 1..NumWorkers
\* web processes serving register_email_notification at the same time
WebProcs == 1..NumWeb
Recipients == {"a@example.org", "b@example.org"}
Callers == {"submit", "poll", "list", "stream"}

VARIABLES
    job,        \* Redis hashes rq:job:<id>: the job records
    queue,      \* Redis list rq:queue:tasks: ids of the queued jobs, FIFO
    failedq,    \* Redis list rq:queue:failed: ids of the quarantined jobs
    sub,        \* the web process running api_import
    wk,         \* the rq worker processes
    sc,         \* one running _get_job_status call per caller
    poll,       \* a client polling api_task_status
    lst,        \* the web process running api_list_tasks
    obs,        \* which interface this specification observes; it never
                \* changes.  What a handler hands to its client is kept
                \* (as history) only under the specification observing it.
    st,         \* the live stream: the generator of sse_stream, with the
                \* last event put on the wire (wire), whether the last
                \* message received led to an event (emit), and the
                \* statuses the subscriber has seen so far (seen)
    lk,         \* a request to api_task_status seen as a function of what
                \* the two job stores know
    mail,       \* the e-mail subscriptions kept in Redis and the web
                \* processes running register_email_notification
    img         \* a request to get_image and its response

vars == <<job, queue, failedq, sub, wk, sc, poll, lst, st, obs, lk, mail, img>>

\* the state of the import pipeline and of its observers
pipeline == <<job, queue, failedq, sub, wk, sc, poll, lst, st>>

\* ------------------------------------------------------------ job records
NoJob == [status |-> "none", meta |-> "none", result |-> "null",
          exc_info |-> "null"]

Terminal == {"finished", "failed"}

\* ------------------------------------------------------- status views
\* The dict built by _get_job_status.  A key the dict does not carry is
\* "absent"; a key whose value is None is "null".
PosAbsent == [kind |-> "absent", n |-> 0]
PosNull == [kind |-> "null", n |-> 0]
PosInt(n) == [kind |-> "int", n |-> n]

\* _get_job_status returning None
NoneView == [id |-> 0, status |-> "None", meta |-> "absent",
             position |-> PosAbsent, result |-> "absent",
             traceback |-> "absent"]

\* zero-based list.index(x)
RECURSIVE IndexFrom(_, _, _)
IndexFrom(s, x, i) ==
    IF s = <<>> THEN PosNull
    ELSE IF Head(s) = x THEN PosInt(i)
    ELSE IndexFrom(Tail(s), x, i + 1)

\* (variant: the index counted from one)
PositionOfOneBased(job_ids, id) == IndexFrom(job_ids, id, 1)

\* job_ids.index(job.id) if job.id in job_ids else None
PositionOf(job_ids, id) == IndexFrom(job_ids, id, 0)

SeqToSet(s) == {s[i] : i \in 1..Len(s)}

\* lines 235-240 and 244-246 of _get_job_status: the dict for a job fetched
\* as snap whose status reads as status; result is job.result
ViewOf(id, snap, status, result) ==
    [id |-> id,
     status |-> status,
     meta |-> IF status # "failed" THEN snap.meta ELSE "absent",
     position |-> PosAbsent,
     result |-> IF status = "finished" THEN result ELSE "absent",
     traceback |-> IF status = "failed" THEN snap.exc_info ELSE "absent"]

\* ------------------------------------------------- keyspace notifications
\* notify-keyspace-events 'Kh': every hash command on rq:job:<id> publishes
\* one message on __keyspace@0__:rq:job:<id> to the subscribed stream.  A
\* message is identified by the last ':'-separated part of its channel.
NoChan == [kind |-> "None", key |-> 0]
ChanPattern == [kind |-> "pattern", key |-> 0]
ChanOf(id) == [kind |-> "key", key |-> id]

Subscribed == st.pc \in {"listen", "call"}

Notify(msgs) ==
    IF Subscribed THEN [st EXCEPT !.inbox = @ \o msgs] ELSE st

\* ------------------------------------------------------------------ Init
\* register_email_notification: nothing registered, every web process idle
NoReg == [code |-> 0, jobs |-> {}]

NoMail == [jobs |-> [r \in Recipients |-> {}],
           recipients |-> [j \in JobIds |-> {}],
           asked |-> [r \in Recipients |-> {}],
           web |-> [p \in WebProcs |->
                      [pc |-> "idle", recipient |-> "", job_ids |-> {},
                       resp |-> NoReg]]]

\* get_image: a dimension of the query, absent or a number
NoDim == [kind |-> "absent", n |-> 0]
Dim(n) == [kind |-> "int", n |-> n]

\* no image request made
NoImage == [req |-> [region |-> "full", size |-> <<"full">>,
                     rotation |-> "0", quality |-> "default",
                     exists |-> FALSE, url |-> FALSE],
            code |-> 0, width |-> NoDim, height |-> NoDim]

IdleCall == [pc |-> "idle", id |-> 0, snap |-> NoJob, job_ids |-> <<>>,
             out |-> NoneView]

StartCall(id) == [pc |-> "fetch", id |-> id, snap |-> NoJob,
                  job_ids |-> <<>>, out |-> NoneView]

NoResp == [code |-> 0, body |-> NoneView, location |-> 0]

\* the response of api_import: status code, json body, Location header
Response(code, body, location) ==
    IF obs = "import"
    THEN [code |-> code, body |-> body, location |-> location]
    ELSE NoResp

\* ------------------------------------------ api_task_status, the stores
\* What queue.fetch_job and failed_queue.fetch_job return for an id: the
\* record of the job, NoJob for None.  None as an id is 0.
NoneId == 0

FetchFrom(store, id) == IF id \in DOMAIN store THEN store[id] ELSE NoJob

NoLookup == [active |-> [j \in JobIds |-> NoJob],
             failure |-> [j \in JobIds |-> NoJob],
             id |-> NoneId, code |-> 0, body |-> NoneView]

\* no job submitted, nobody connected
InitPipeline(o) ==
    /\ obs = o
    /\ job = [j \in JobIds |-> NoJob]
    /\ queue = <<>>
    /\ failedq = <<>>
    /\ sub = [pc |-> "idle", id |-> 0, resp |-> NoResp]
    /\ wk = [w \in Workers |-> [pc |-> "idle", id |-> 0, loc |-> NoJob]]
    /\ sc = [c \in Callers |-> IdleCall]
    /\ poll = [pc |-> "idle", id |-> 0, seen |-> <<>>, nullSeen |-> FALSE,
               last |-> NoneView]
    /\ lst = [pc |-> "idle", todo |-> <<>>, tasks |-> <<>>, resp |-> <<>>]
    /\ st = [pc |-> "none", task_id |-> 0, last_status |-> NoneView,
             last_id |-> NoChan, inbox |-> <<>>, wire |-> NoneView,
             emit |-> FALSE, seen |-> <<>>]

InitFor(o) ==
    /\ InitPipeline(o)
    /\ lk = NoLookup
    /\ mail = NoMail
    /\ img = NoImage

\* ------------------------------------------------------------ api_import
\* The ids of the jobs are opaque (uuid4); the model hands them out in order.
FreeIds == {j \in JobIds : job[j] = NoJob}
NewId == CHOOSE j \in FreeIds : \A k \in FreeIds : j <= k

\* An id a client can know: it was returned by api_import or listed by
\* api_list_tasks, both of which follow the push onto the queue.
Pushed(id) == job[id] # NoJob /\ ~(sub.pc = "push" /\ sub.id = id)

\* (variant: the job is enqueued before the probe is looked at)
SubmitBeginEnqueueFirst(reachable, parses) ==
    /\ sub.pc = "idle"
    /\ FreeIds # {}
    /\ job' = [job EXCEPT ![NewId] =
                  [status |-> "queued", meta |-> "basic",
                   result |-> "null", exc_info |-> "null"]]
    /\ st' = Notify(<<ChanOf(NewId), ChanOf(NewId)>>)
    /\ sub' = IF reachable /\ parses
              THEN [pc |-> "push", id |-> NewId, resp |-> NoResp]
              ELSE [sub EXCEPT !.resp =
                       Response(IF reachable THEN 500 ELSE 400, NoneView, 0)]
    /\ UNCHANGED <<queue, failedq, wk, sc, poll, lst, obs, lk, mail, img>>

\* lines 205-217: the HEAD probe, _get_basic_info and the first half of
\* queue.enqueue (the job record is saved with status "queued").
\* reachable: requests.head returned a truthy response; parses: ET.parse and
\* read_metadata of _get_basic_info did not raise.
SubmitBegin(reachable, parses) ==
    /\ sub.pc = "idle"
    /\ IF ~reachable
       THEN /\ sub' = [sub EXCEPT !.resp = Response(400, NoneView, 0)]
            /\ UNCHANGED <<job, st>>
       ELSE IF ~parses
       THEN \* the exception reaches handle_error (lines 40-44)
            /\ sub' = [sub EXCEPT !.resp = Response(500, NoneView, 0)]
            /\ UNCHANGED <<job, st>>
       ELSE /\ FreeIds # {}
            /\ job' = [job EXCEPT ![NewId] =
                          [status |-> "queued", meta |-> "basic",
                           result |-> "null", exc_info |-> "null"]]
            /\ st' = Notify(<<ChanOf(NewId), ChanOf(NewId)>>)
            /\ sub' = [pc |-> "push", id |-> NewId, resp |-> NoResp]
    /\ UNCHANGED <<queue, failedq, wk, sc, poll, lst, obs, lk, mail, img>>

\* (variant: the id is pushed at the front of the queue)
SubmitPushFront ==
    /\ sub.pc = "push"
    /\ queue' = <<sub.id>> \o queue
    /\ IF obs = "import"
       THEN /\ sub' = [sub EXCEPT !.pc = "status"]
            /\ sc' = [sc EXCEPT !["submit"] = StartCall(sub.id)]
       ELSE /\ sub' = [sub EXCEPT !.pc = "idle", !.id = 0]
            /\ UNCHANGED sc
    /\ UNCHANGED <<job, failedq, wk, poll, lst, st, obs, lk, mail, img>>

\* line 217, second half of queue.enqueue: RPUSH of the id; line 218
\* job.refresh() only reads; line 221 starts _get_job_status(job.id).
\* From here on api_import only reads the store to build its response, so
\* a specification that does not observe the response lets the handler end.
SubmitPush ==
    /\ sub.pc = "push"
    /\ queue' = Append(queue, sub.id)
    /\ IF obs = "import"
       THEN /\ sub' = [sub EXCEPT !.pc = "status"]
            /\ sc' = [sc EXCEPT !["submit"] = StartCall(sub.id)]
       ELSE /\ sub' = [sub EXCEPT !.pc = "idle", !.id = 0]
            /\ UNCHANGED sc
    /\ UNCHANGED <<job, failedq, wk, poll, lst, st, obs, lk, mail, img>>

\* lines 219-224: the 202 response
SubmitRespond ==
    /\ sub.pc = "status"
    /\ sc["submit"].pc = "done"
    /\ sub' = [pc |-> "idle", id |-> 0,
               resp |-> Response(202, sc["submit"].out, sub.id)]
    /\ sc' = [sc EXCEPT !["submit"] = IdleCall]
    /\ UNCHANGED <<job, queue, failedq, wk, poll, lst, st, obs, lk, mail, img>>

\* ------------------------------------------------------- _get_job_status
\* lines 228-233: queue.fetch_job reads the whole hash (HGETALL)
FetchJob(c) ==
    /\ sc[c].pc = "fetch"
    /\ sc' = [sc EXCEPT ![c] =
                 IF job[sc[c].id] = NoJob
                 THEN [sc[c] EXCEPT !.pc = "done", !.out = NoneView]
                 ELSE [sc[c] EXCEPT !.pc = "status", !.snap = job[sc[c].id]]]
    /\ UNCHANGED <<job, queue, failedq, sub, wk, poll, lst, st, obs, lk, mail, img>>

\* lines 234-240 and 244-246: job.get_status() reads the status field again
\* (HGET); meta and exc_info come from the hash as fetched; job.result is
\* the fetched result, read again (HGET) when the fetched hash had none.
GetStatus(c) ==
    /\ sc[c].pc = "status"
    /\ LET call == sc[c]
           status == job[call.id].status
           result == IF call.snap.result # "null" THEN call.snap.result
                     ELSE job[call.id].result
       IN sc' = [sc EXCEPT ![c] =
                    IF status = "queued"
                    THEN [call EXCEPT !.pc = "ids"]
                    ELSE [call EXCEPT !.pc = "done",
                             !.out = ViewOf(call.id, call.snap, status, result)]]
    /\ UNCHANGED <<job, queue, failedq, sub, wk, poll, lst, st, obs, lk, mail, img>>

\* lines 241-243: queue.get_job_ids() reads the list (LRANGE)
GetJobIds(c) ==
    /\ sc[c].pc = "ids"
    /\ LET call == sc[c]
           job_ids == queue
       IN sc' = [sc EXCEPT ![c] =
                    [call EXCEPT !.pc = "done", !.job_ids = job_ids,
                        !.out = [ViewOf(call.id, call.snap, "queued", "null")
                                   EXCEPT !.position = PositionOf(job_ids, call.id)]]]
    /\ UNCHANGED <<job, queue, failedq, sub, wk, poll, lst, st, obs, lk, mail, img>>

\* ---------------------------------------------------------------- worker
\* make_worker lines 80-86: Worker.work takes the head of the queue (LPOP)
\* and fetches the job.
Dequeue(w) ==
    /\ wk[w].pc = "idle"
    /\ queue # <<>>
    /\ queue' = Tail(queue)
    /\ wk' = [wk EXCEPT ![w] = [pc |-> "popped", id |-> Head(queue),
                                loc |-> job[Head(queue)]]]
    /\ UNCHANGED <<job, failedq, sub, sc, poll, lst, st, obs, lk, mail, img>>

\* Worker.prepare_job_execution: job.set_status(started)
Prepare(w) ==
    /\ wk[w].pc = "popped"
    /\ job' = [job EXCEPT ![wk[w].id].status = "started"]
    /\ wk' = [wk EXCEPT ![w].pc = "running", ![w].loc.status = "started"]
    /\ st' = Notify(<<ChanOf(wk[w].id)>>)
    /\ UNCHANGED <<queue, failedq, sub, sc, poll, lst, obs, lk, mail, img>>

\* Worker.perform_job, the job returned: status and result are written in
\* one pipeline (set_status, save)
PerformOk(w) ==
    /\ wk[w].pc = "running"
    /\ LET loc == [wk[w].loc EXCEPT !.status = "finished",
                                    !.result = "manifest"] IN
       /\ job' = [job EXCEPT ![wk[w].id] = loc]
       /\ wk' = [wk EXCEPT ![w] = [pc |-> "idle", id |-> 0, loc |-> NoJob]]
    /\ st' = Notify(<<ChanOf(wk[w].id), ChanOf(wk[w].id)>>)
    /\ UNCHANGED <<queue, failedq, sub, sc, poll, lst, obs, lk, mail, img>>

\* Worker.perform_job, the job raised: handle_job_failure sets the status,
\* then the exception handlers run, last pushed first.
PerformFail(w) ==
    /\ wk[w].pc = "running"
    /\ job' = [job EXCEPT ![wk[w].id].status = "failed"]
    /\ wk' = [wk EXCEPT ![w].pc = "handler", ![w].loc.status = "failed"]
    /\ st' = Notify(<<ChanOf(wk[w].id)>>)
    /\ UNCHANGED <<queue, failedq, sub, sc, poll, lst, obs, lk, mail, img>>

\* (variant: the handler saves the job as it was when the worker took it)
ExceptionHandlerStale(w, hasargs) ==
    /\ wk[w].pc = "handler"
    /\ LET loc == [wk[w].loc EXCEPT !.meta = "exc", !.status = "queued"] IN
       /\ job' = [job EXCEPT ![wk[w].id] = loc]
       /\ wk' = [wk EXCEPT ![w].pc = "quarantine", ![w].loc = loc]
       /\ st' = Notify(<<ChanOf(wk[w].id)>>)
    /\ UNCHANGED <<queue, failedq, sub, sc, poll, lst, obs, lk, mail, img>>

\* (variant: an exception escaping the handler ends the worker)
ExceptionHandlerFatal(w, hasargs) ==
    /\ wk[w].pc = "handler"
    /\ IF hasargs
       THEN LET loc == [wk[w].loc EXCEPT !.meta = "exc"] IN
            /\ job' = [job EXCEPT ![wk[w].id] = loc]
            /\ wk' = [wk EXCEPT ![w].pc = "quarantine", ![w].loc = loc]
            /\ st' = Notify(<<ChanOf(wk[w].id)>>)
       ELSE /\ wk' = [wk EXCEPT ![w] = [pc |-> "dead", id |-> 0,
                                         loc |-> NoJob]]
            /\ UNCHANGED <<job, st>>
    /\ UNCHANGED <<queue, failedq, sub, sc, poll, lst, obs, lk, mail, img>>

\* _exception_handler lines 68-77.  hasargs: exc_value.args is not empty.
\* job.save() writes the worker's copy of the job.  Without args, args[0]
\* raises IndexError out of the handler and the work horse ends there.
ExceptionHandler(w, hasargs) ==
    /\ wk[w].pc = "handler"
    /\ IF hasargs
       THEN LET loc == [wk[w].loc EXCEPT !.meta = "exc"] IN
            /\ job' = [job EXCEPT ![wk[w].id] = loc]
            /\ wk' = [wk EXCEPT ![w].pc = "quarantine", ![w].loc = loc]
            /\ st' = Notify(<<ChanOf(wk[w].id)>>)
       ELSE /\ wk' = [wk EXCEPT ![w] = [pc |-> "idle", id |-> 0,
                                         loc |-> NoJob]]
            /\ UNCHANGED <<job, st>>
    /\ UNCHANGED <<queue, failedq, sub, sc, poll, lst, obs, lk, mail, img>>

\* The handler returned None, so rq's own handler runs next:
\* move_to_failed_queue records the traceback and pushes the id on the
\* failed queue in one pipeline.
MoveToFailed(w) ==
    /\ wk[w].pc = "quarantine"
    /\ LET loc == [wk[w].loc EXCEPT !.exc_info = "tb"] IN
       /\ job' = [job EXCEPT ![wk[w].id] = loc]
       /\ wk' = [wk EXCEPT ![w] = [pc |-> "idle", id |-> 0, loc |-> NoJob]]
    /\ failedq' = Append(failedq, wk[w].id)
    /\ st' = Notify(<<ChanOf(wk[w].id)>>)
    /\ UNCHANGED <<queue, sub, sc, poll, lst, obs, lk, mail, img>>

\* ------------------------------------------------------- api_task_status
\* lines 260-268: a client polls the status of one job it knows, again and
\* again.  seen, nullSeen and last record what the client has been told.
PollStart(id) ==
    /\ poll.pc = "idle"
    /\ Pushed(id)
    /\ poll.id \in {0, id}
    /\ poll' = [poll EXCEPT !.pc = "wait", !.id = id]
    /\ sc' = [sc EXCEPT !["poll"] = StartCall(id)]
    /\ UNCHANGED <<job, queue, failedq, sub, wk, lst, st, obs, lk, mail, img>>

PollDone ==
    /\ poll.pc = "wait"
    /\ sc["poll"].pc = "done"
    /\ LET out == sc["poll"].out IN
       poll' = [poll EXCEPT
                  !.pc = "idle",
                  !.seen = IF @ # <<>> /\ @[Len(@)] = out.status THEN @
                           ELSE Append(@, out.status),
                  !.nullSeen = @ \/ out.position = PosNull,
                  !.last = out]
    /\ sc' = [sc EXCEPT !["poll"] = IdleCall]
    /\ UNCHANGED <<job, queue, failedq, sub, wk, lst, st, obs, lk, mail, img>>

\* -------------------------------------------------------- api_list_tasks
\* lines 256-257: queue.job_ids is read once, then _get_job_status is called
\* for each id in turn.
ListStart ==
    /\ lst.pc = "idle"
    /\ IF queue = <<>>
       THEN /\ lst' = [lst EXCEPT !.resp = <<>>]
            /\ UNCHANGED sc
       ELSE /\ lst' = [lst EXCEPT !.pc = "loop", !.todo = Tail(queue),
                                  !.tasks = <<>>]
            /\ sc' = [sc EXCEPT !["list"] = StartCall(Head(queue))]
    /\ UNCHANGED <<job, queue, failedq, sub, wk, poll, st, obs, lk, mail, img>>

ListCollect ==
    /\ lst.pc = "loop"
    /\ sc["list"].pc = "done"
    /\ LET tasks == Append(lst.tasks, sc["list"].out) IN
       IF lst.todo = <<>>
       THEN /\ lst' = [pc |-> "idle", todo |-> <<>>, tasks |-> <<>>,
                       resp |-> tasks]
            /\ sc' = [sc EXCEPT !["list"] = IdleCall]
       ELSE /\ lst' = [lst EXCEPT !.todo = Tail(@), !.tasks = tasks]
            /\ sc' = [sc EXCEPT !["list"] = StartCall(Head(lst.todo))]
    /\ UNCHANGED <<job, queue, failedq, sub, wk, poll, st, obs, lk, mail, img>>

\* ------------------------------------------------------------ sse_stream
\* lines 278-291: the job exists; the generator subscribes to the pattern.
\* pubsub.listen() first yields the confirmation of the subscription, whose
\* channel is the pattern itself.
StreamOpen(id) ==
    /\ st.pc = "none"
    /\ Pushed(id)
    /\ st' = [st EXCEPT !.pc = "listen", !.task_id = id,
                        !.inbox = <<ChanPattern>>]
    /\ UNCHANGED <<job, queue, failedq, sub, wk, sc, poll, lst, obs, lk, mail, img>>

\* lines 295-302: the next message of pubsub.listen()
StreamRecv ==
    /\ st.pc = "listen"
    /\ st.inbox # <<>>
    /\ LET cur_id == Head(st.inbox) IN
       IF cur_id = st.last_id /\ st.last_status.status # "started"
       THEN /\ st' = [st EXCEPT !.inbox = Tail(@), !.emit = FALSE]
            /\ UNCHANGED sc
       ELSE /\ st' = [st EXCEPT !.inbox = Tail(@), !.last_id = cur_id,
                                !.pc = "call", !.emit = FALSE]
            /\ sc' = [sc EXCEPT !["stream"] = StartCall(st.task_id)]
    /\ UNCHANGED <<job, queue, failedq, sub, wk, poll, lst, obs, lk, mail, img>>

\* (variant: every recomputed status is sent)
StreamYieldAlways ==
    /\ st.pc = "call"
    /\ sc["stream"].pc = "done"
    /\ LET status == sc["stream"].out IN
       st' = [st EXCEPT !.pc = "listen",
                        !.wire = status,
                        !.emit = TRUE,
                        !.seen = IF @ # <<>> /\ @[Len(@)] = status.status
                                 THEN @ ELSE Append(@, status.status),
                        !.last_status = status]
    /\ sc' = [sc EXCEPT !["stream"] = IdleCall]
    /\ UNCHANGED <<job, queue, failedq, sub, wk, poll, lst, obs, lk, mail, img>>

\* lines 303-306: the status is compared with the last one sent
StreamYield ==
    /\ st.pc = "call"
    /\ sc["stream"].pc = "done"
    /\ LET status == sc["stream"].out IN
       IF status = st.last_status
       THEN st' = [st EXCEPT !.pc = "listen"]
       ELSE st' = [st EXCEPT !.pc = "listen",
                             !.wire = status,
                             !.emit = TRUE,
                             !.seen = IF @ # <<>> /\ @[Len(@)] = status.status
                                      THEN @ ELSE Append(@, status.status),
                             !.last_status = status]
    /\ sc' = [sc EXCEPT !["stream"] = IdleCall]
    /\ UNCHANGED <<job, queue, failedq, sub, wk, poll, lst, obs, lk, mail, img>>

\* The client goes away: the server closes the generator.
StreamDisconnect ==
    /\ st.pc = "listen"
    /\ st' = [st EXCEPT !.pc = "closed", !.inbox = <<>>]
    /\ UNCHANGED <<job, queue, failedq, sub, wk, sc, poll, lst, obs, lk, mail, img>>

\* ------------------------------------- api_task_status over the stores
\* the dict of lines 234-246 for a job found as rec
ViewOfRecord(id, rec) ==
    IF rec.status = "queued"
    THEN [ViewOf(id, rec, "queued", "null") EXCEPT
             !.position = PositionOf(queue, id)]
    ELSE ViewOf(id, rec, rec.status, rec.result)

\* _get_job_status lines 228-233: job, the id, is rebound to the result of
\* queue.fetch_job, and it is that result, None, that is handed to
\* failed_queue.fetch_job
LookupJob(id) ==
    LET job1 == FetchFrom(lk.active, id)
        arg == IF job1 = NoJob THEN NoneId ELSE id
    IN IF job1 = NoJob THEN FetchFrom(lk.failure, arg) ELSE job1

\* api_task_status lines 260-268
TaskStatus(task_id) ==
    /\ lk.id = NoneId
    /\ LET found == LookupJob(task_id) IN
       lk' = [lk EXCEPT !.id = task_id,
                 !.code = IF found = NoJob THEN 404 ELSE 200,
                 !.body = IF found = NoJob THEN NoneView
                          ELSE ViewOfRecord(task_id, found)]
    /\ UNCHANGED <<pipeline, obs, mail, img>>

\* the records a store can hold for a job
ActiveRecords ==
    {NoJob} \cup {[status |-> s, meta |-> "basic",
                   result |-> IF s = "finished" THEN "manifest" ELSE "null",
                   exc_info |-> "null"] : s \in {"queued", "started", "finished"}}

FailureRecords ==
    {NoJob, [status |-> "failed", meta |-> "exc", result |-> "null",
             exc_info |-> "tb"]}

InitLookup ==
    /\ InitPipeline("status")
    /\ mail = NoMail
    /\ img = NoImage
    /\ \E a \in [JobIds -> ActiveRecords], f \in [JobIds -> FailureRecords] :
           lk = [NoLookup EXCEPT !.active = a, !.failure = f]

NextLookup == \E task_id \in JobIds : TaskStatus(task_id)

SpecLookup == InitLookup /\ [][NextLookup]_vars

\* ------------------------------------------ register_email_notification
\* lines 310-324.  The two stored indexes are the Redis sets
\* notifications.<recipient>.jobs and recipients.<job_id>; asked[r] collects
\* the job ids of every registration of r that was carried out.
\* redis.pipeline() is a MULTI/EXEC transaction: the SADDs of lines 319-321
\* are applied together by batch.execute().  The SMEMBERS of line 323 is a
\* later command of its own.
RegisterOverwrite(p, r, js, valid) ==
    /\ mail.web[p].pc = "idle"
    /\ IF ~valid
       THEN mail' = [mail EXCEPT !.web[p].resp = [code |-> 400, jobs |-> {}]]
       ELSE IF js = {}
       THEN mail' = [mail EXCEPT !.web[p].resp = [code |-> 500, jobs |-> {}]]
       ELSE mail' = [mail EXCEPT
                        !.jobs[r] = js,
                        !.recipients = [j \in JobIds |->
                                          IF j \in js THEN @[j] \cup {r}
                                          ELSE @[j]],
                        !.asked[r] = @ \cup js,
                        !.web[p] = [pc |-> "read", recipient |-> r,
                                    job_ids |-> js, resp |-> NoReg]]
    /\ UNCHANGED <<pipeline, obs, lk, img>>

\* (variant: the batch is executed before the address is validated)
RegisterBatchFirst(p, r, js, valid) ==
    /\ mail.web[p].pc = "idle"
    /\ IF js = {}
       THEN mail' = [mail EXCEPT !.web[p].resp = [code |-> 500, jobs |-> {}]]
       ELSE mail' = [mail EXCEPT
                        !.jobs[r] = @ \cup js,
                        !.recipients = [j \in JobIds |->
                                          IF j \in js THEN @[j] \cup {r}
                                          ELSE @[j]],
                        !.asked[r] = IF valid THEN @ \cup js ELSE @,
                        !.web[p] = IF valid
                                   THEN [pc |-> "read", recipient |-> r,
                                         job_ids |-> js, resp |-> NoReg]
                                   ELSE [@ EXCEPT !.resp = [code |-> 400,
                                                            jobs |-> {}]]]
    /\ UNCHANGED <<pipeline, obs, lk, img>>

\* (variant: only the recipient's own set is written)
RegisterJobsOnly(p, r, js, valid) ==
    /\ mail.web[p].pc = "idle"
    /\ IF ~valid
       THEN mail' = [mail EXCEPT !.web[p].resp = [code |-> 400, jobs |-> {}]]
       ELSE IF js = {}
       THEN mail' = [mail EXCEPT !.web[p].resp = [code |-> 500, jobs |-> {}]]
       ELSE mail' = [mail EXCEPT
                        !.jobs[r] = @ \cup js,
                        !.asked[r] = @ \cup js,
                        !.web[p] = [pc |-> "read", recipient |-> r,
                                    job_ids |-> js, resp |-> NoReg]]
    /\ UNCHANGED <<pipeline, obs, lk, img>>

\* lines 312-322.  valid: what validate_email(recipient, verify=True)
\* answers.  js: the members of request.json['jobs']; with no member SADD
\* has no value to add, batch.execute() raises and handle_error answers
\* 500.
Register(p, r, js, valid) ==
    /\ mail.web[p].pc = "idle"
    /\ IF ~valid
       THEN mail' = [mail EXCEPT !.web[p].resp = [code |-> 400, jobs |-> {}]]
       ELSE IF js = {}
       THEN mail' = [mail EXCEPT !.web[p].resp = [code |-> 500, jobs |-> {}]]
       ELSE mail' = [mail EXCEPT
                        !.jobs[r] = @ \cup js,
                        !.recipients = [j \in JobIds |->
                                          IF j \in js THEN @[j] \cup {r}
                                          ELSE @[j]],
                        !.asked[r] = @ \cup js,
                        !.web[p] = [pc |-> "read", recipient |-> r,
                                    job_ids |-> js, resp |-> NoReg]]
    /\ UNCHANGED <<pipeline, obs, lk, img>>

\* lines 323-324: the response lists redis.smembers(jobs_key)
ReadMembers(p) ==
    /\ mail.web[p].pc = "read"
    /\ mail' = [mail EXCEPT
                  !.web[p] = [pc |-> "idle", recipient |-> "", job_ids |-> {},
                              resp |-> [code |-> 200,
                                        jobs |-> mail.jobs[@.recipient]]]]
    /\ UNCHANGED <<pipeline, obs, lk, img>>

NextMail ==
    \/ \E p \in WebProcs, r \in Recipients, js \in SUBSET JobIds,
          valid \in BOOLEAN : Register(p, r, js, valid)
    \/ \E p \in WebProcs : ReadMembers(p)

InitMail == InitFor("mail")

SpecMail == InitMail /\ [][NextMail]_vars

\* -------------------------------------------------------------- get_image
\* lines 427-457.  A size is the sequence of its characters; the sizes
\* 'full' and 'max' are one symbol each.
DigitChars == {"0", "1"}
Chars == DigitChars \cup {",", "x"}
Strings(alphabet, n) == UNION {[1..k -> alphabet] : k \in 1..n}
Sizes == {<<"full">>, <<"max">>} \cup Strings(Chars, MaxLen)

\* str.split(','): the pieces between the commas, empty ones included
RECURSIVE Split(_)
Split(s) ==
    IF \A i \in 1..Len(s) : s[i] # ","
    THEN <<s>>
    ELSE LET i == CHOOSE k \in 1..Len(s) :
                     s[k] = "," /\ \A m \in 1..(k - 1) : s[m] # ","
         IN <<SubSeq(s, 1, i - 1)>> \o Split(SubSeq(s, i + 1, Len(s)))

NonEmpty(v) == v # <<>>

\* line 446: [v for v in size.split(',') if v]
Parts(size) == SelectSeq(Split(size), NonEmpty)

EndsWith(s, c) == s # <<>> /\ s[Len(s)] = c
StartsWith(s, c) == s # <<>> /\ s[1] = c

\* int(p): p must be digits, else ValueError; the value is read digit by
\* digit from the left
IsInt(p) == p # <<>> /\ \A i \in 1..Len(p) : p[i] \in DigitChars

DigitOf(c) == IF c = "1" THEN 1 ELSE 0

RECURSIVE IntOf(_)
IntOf(p) ==
    IF p = <<>> THEN 0
    ELSE 10 * IntOf(SubSeq(p, 1, Len(p) - 1)) + DigitOf(p[Len(p)])

\* lines 433-435
NotSupported(req) ==
    \/ req.region # "full"
    \/ req.rotation # "0"
    \/ req.quality \notin {"default", "native"}

\* lines 443-453: the query built from the size, or the exception raised
\* (IndexError for parts[0] of no parts, ValueError for int() of a
\* non-number and for unpacking other than two values)
QueryOf(size) ==
    LET parts == Parts(size)
        raised == [raised |-> TRUE, width |-> NoDim, height |-> NoDim]
    IN IF size \in {<<"full">>, <<"max">>}
       THEN [raised |-> FALSE, width |-> NoDim, height |-> NoDim]
       ELSE IF EndsWith(size, ",")
       THEN IF parts # <<>> /\ IsInt(parts[1])
            THEN [raised |-> FALSE, width |-> Dim(IntOf(parts[1])),
                  height |-> NoDim]
            ELSE raised
       ELSE IF StartsWith(size, ",")
       THEN IF parts # <<>> /\ IsInt(parts[1])
            THEN [raised |-> FALSE, width |-> NoDim,
                  height |-> Dim(IntOf(parts[1]))]
            ELSE raised
       ELSE IF /\ \A i \in 1..Len(parts) : IsInt(parts[i])
               /\ Len(parts) = 2
            THEN [raised |-> FALSE, width |-> Dim(IntOf(parts[1])),
                  height |-> Dim(IntOf(parts[2]))]
            ELSE raised

\* (variant: the image is looked up before the request is checked)
GetImageLookupFirst ==
    /\ img.code = 0
    /\ LET req == img.req
           q == QueryOf(req.size)
       IN img' = IF ~req.exists THEN [img EXCEPT !.code = 404]
                 ELSE IF NotSupported(req) THEN [img EXCEPT !.code = 501]
                 ELSE IF q.raised THEN [img EXCEPT !.code = 500]
                 ELSE [img EXCEPT !.code = IF req.url THEN 303 ELSE 501,
                                  !.width = q.width, !.height = q.height]
    /\ UNCHANGED <<pipeline, obs, lk, mail>>

\* (variant: the one number of a size goes to the other dimension)
GetImageSwapped ==
    /\ img.code = 0
    /\ LET req == img.req
           q == QueryOf(req.size)
       IN img' = IF NotSupported(req) THEN [img EXCEPT !.code = 501]
                 ELSE IF ~req.exists THEN [img EXCEPT !.code = 404]
                 ELSE IF q.raised THEN [img EXCEPT !.code = 500]
                 ELSE [img EXCEPT !.code = IF req.url THEN 303 ELSE 501,
                                  !.width = q.height, !.height = q.width]
    /\ UNCHANGED <<pipeline, obs, lk, mail>>

\* lines 430-457.  req.exists: IIIFImage.get finds the image; req.url:
\* get_image_url has a url for the query.  The iiif blueprint has no error
\* handler: an exception raised while the query is built is answered 500.
GetImage ==
    /\ img.code = 0
    /\ LET req == img.req
           q == QueryOf(req.size)
       IN img' = IF NotSupported(req) THEN [img EXCEPT !.code = 501]
                 ELSE IF ~req.exists THEN [img EXCEPT !.code = 404]
                 ELSE IF q.raised THEN [img EXCEPT !.code = 500]
                 ELSE [img EXCEPT !.code = IF req.url THEN 303 ELSE 501,
                                  !.width = q.width, !.height = q.height]
    /\ UNCHANGED <<pipeline, obs, lk, mail>>

Requests ==
    [region : {"full", "0,0,10,10"}, size : Sizes, rotation : {"0", "90"},
     quality : {"default", "native", "color"}, exists : BOOLEAN,
     url : BOOLEAN]

InitImage ==
    /\ InitPipeline("image")
    /\ lk = NoLookup
    /\ mail = NoMail
    /\ \E req \in Requests : img = [NoImage EXCEPT !.req = req]

NextImage == GetImage

SpecImage == InitImage /\ [][NextImage]_vars

\* ------------------------------------------------------------------ Next
\* Submissions, the workers and the status calls in progress
Jobs ==
    \/ \E reachable \in BOOLEAN, parses \in BOOLEAN :
           SubmitBegin(reachable, parses)
    \/ SubmitPush
    \/ \E c \in Callers : FetchJob(c)
    \/ \E c \in Callers : GetStatus(c)
    \/ \E c \in Callers : GetJobIds(c)
    \/ \E w \in Workers : Dequeue(w)
    \/ \E w \in Workers : Prepare(w)
    \/ \E w \in Workers : PerformOk(w)
    \/ \E w \in Workers : PerformFail(w)
    \/ \E w \in Workers, hasargs \in BOOLEAN : ExceptionHandler(w, hasargs)
    \/ \E w \in Workers : MoveToFailed(w)

\* ... observing the responses of api_import
Next ==
    \/ Jobs
    \/ SubmitRespond

\* ... with a client polling one job
NextPoll ==
    \/ Jobs
    \/ \E id \in JobIds : PollStart(id)
    \/ PollDone

\* ... with requests for the list of queued jobs
NextList ==
    \/ Jobs
    \/ ListStart
    \/ ListCollect

\* ... with a live stream
NextStream ==
    \/ Jobs
    \/ \E id \in JobIds : StreamOpen(id)
    \/ StreamRecv
    \/ StreamYield
    \/ StreamDisconnect

Init == InitFor("import")
InitPoll == InitFor("poll")
InitList == InitFor("list")
InitStream == InitFor("stream")

Spec == Init /\ [][Next]_vars
SpecPoll == InitPoll /\ [][NextPoll]_vars
SpecList == InitList /\ [][NextList]_vars
SpecStream == InitStream /\ [][NextStream]_vars

\* The worker loop of make_worker runs on: a worker that can take a step
\* takes it.  A running job ends, by returning or raising, at the latest
\* when the queue's default_timeout (line 63) stops it.
WorkerFair(w) ==
    /\ WF_vars(Dequeue(w))
    /\ WF_vars(Prepare(w))
    /\ WF_vars(PerformOk(w) \/ PerformFail(w))
    /\ WF_vars(\E hasargs \in BOOLEAN : ExceptionHandler(w, hasargs))
    /\ WF_vars(MoveToFailed(w))

SpecFair == Init /\ [][Next]_vars /\ \A w \in Workers : WorkerFair(w)

\* ================================================================ claims

\* C1: the status of a job changes only along queued -> started -> finished
\* or queued -> started -> failed (a job is created in state queued); in
\* particular no job is queued again after it has left that state, also
\* when the exception handler saves the job.
Allowed == {<<"none", "queued">>, <<"queued", "started">>,
            <<"started", "finished">>, <<"started", "failed">>}

C1_Transitions ==
    [][\A j \in JobIds :
          job[j].status' # job[j].status =>
              <<job[j].status, job[j].status'>> \in Allowed]_vars

\* a job failed and the exception handler has saved it, another one finished
W_C1 ==
    /\ \E j \in JobIds : job[j].status = "failed" /\ job[j].meta = "exc"
    /\ \E j \in JobIds : job[j].status = "finished"

\* C2 (as claimed): the statuses an observer sees for its job, starting from
\* queued, follow queued -> started -> finished|failed without skipping
\* started and without going back.
Ordered == {<<"queued">>, <<"queued", "started">>,
            <<"queued", "started", "finished">>,
            <<"queued", "started", "failed">>}

CE_C2 ==
    /\ (st.seen # <<>> /\ st.seen[1] = "queued") => st.seen \in Ordered
    /\ (poll.seen # <<>> /\ poll.seen[1] = "queued") => poll.seen \in Ordered

\* C3: an event the stream sends never equals the event sent before it.
C3_NoDuplicateEvents ==
    [][(st.emit' /\ ~st.emit) => st.wire' # st.wire]_vars

\* the stream has just sent an event that was not its first
W_C3 == st.emit /\ Len(st.seen) >= 2

\* the status _get_job_status would return in the current state
CurrentView(id) ==
    IF job[id] = NoJob THEN NoneView
    ELSE IF job[id].status = "queued"
    THEN [ViewOf(id, job[id], "queued", "null") EXCEPT
             !.position = PositionOf(queue, id)]
    ELSE ViewOf(id, job[id], job[id].status, job[id].result)

\* C4 (as claimed): on every notification the stream sends an event exactly
\* when the status of its job differs from the last status sent, so that
\* every change of the job that is followed by a notification is delivered:
\* a notification from the job's own key, which follows a change of the
\* job, is passed over only when the status is the one last sent.
PassedOver ==
    /\ st.pc = "listen" /\ st.pc' = "listen"
    /\ st.inbox # <<>> /\ st.inbox' = Tail(st.inbox)

CE_C4 ==
    [][(PassedOver /\ Head(st.inbox) = ChanOf(st.task_id)) =>
          CurrentView(st.task_id) = st.last_status]_vars

\* C5 (as claimed): once the stream has sent a finished or failed status it
\* is closed; the generator does not go back to waiting for notifications.
CE_C5 == ~(st.pc \in {"listen", "call"} /\ st.last_status.status \in Terminal)

\* C6: a status view of a queued job carries the zero-based index of the
\* job's id in the id list read during the call, null exactly when the id
\* is not in that list; a view of any other status carries no position.
C6_Position ==
    \A c \in Callers :
        sc[c].pc = "done" /\ sc[c].out # NoneView =>
            LET out == sc[c].out
                ids == sc[c].job_ids
            IN IF out.status = "queued"
               THEN /\ out.position = PosNull <=> out.id \notin SeqToSet(ids)
                    /\ out.id \in SeqToSet(ids) =>
                          /\ out.position.kind = "int"
                          /\ out.position.n + 1 \in 1..Len(ids)
                          /\ ids[out.position.n + 1] = out.id
                          /\ \A i \in 1..out.position.n : ids[i] # out.id
               ELSE out.position = PosAbsent

\* the client was told position 1 and is now told null: the job was taken
\* off the queue between the two reads of the call
W_C6 ==
    /\ poll.last.position = PosInt(1)
    /\ sc["poll"].pc = "done"
    /\ sc["poll"].out.position = PosNull

\* C7: the positions a client is told for a job never increase, and after a
\* null position no integer position is told again.
PollAnswered == poll.pc = "wait" /\ poll.pc' = "idle"

C7_PositionMonotone ==
    [][PollAnswered =>
          /\ (poll.last.position.kind = "int"
                /\ poll.last'.position.kind = "int")
             => poll.last'.position.n <= poll.last.position.n
          /\ poll.nullSeen => poll.last'.position.kind # "int"]_vars

\* the client was told position 1 and is now told position 0
W_C7 ==
    /\ poll.last.position = PosInt(1)
    /\ sc["poll"].pc = "done"
    /\ sc["poll"].out.position = PosInt(0)

\* C8 (as claimed): every entry of the list of queued jobs is the view of a
\* queued job.
CE_C8 == \A i \in 1..Len(lst.resp) : lst.resp[i].status = "queued"

\* C9: a submission answered 400 leaves the job records and the queues as
\* they were.
C9_ProbeFailure ==
    [][(sub.resp'.code = 400 /\ sub.resp' # sub.resp) =>
          (job' = job /\ queue' = queue /\ failedq' = failedq)]_vars

\* a submission was answered 400 while a job was waiting in the queue
W_C9 == sub.resp.code = 400 /\ sub.pc = "idle" /\ queue # <<>>

\* C10 (as claimed): a submission ends in 400 or in 202, and the 202
\* response carries the view of the new job and its location.
CE_C10 ==
    /\ sub.resp.code \in {0, 400, 202}
    /\ sub.resp.code = 202 =>
          /\ sub.resp.body.id = sub.resp.location
          /\ job[sub.resp.location] # NoJob

\* C11 (as claimed): the answer is 404 exactly when neither store knows the
\* id; an id only the failure store knows is answered with the job's view.
CE_C11 ==
    lk.id # NoneId =>
        /\ lk.code = 404 <=>
              (lk.active[lk.id] = NoJob /\ lk.failure[lk.id] = NoJob)
        /\ (lk.active[lk.id] = NoJob /\ lk.failure[lk.id] # NoJob) =>
              lk.body = ViewOfRecord(lk.id, lk.failure[lk.id])

\* C12 (as claimed): a status view of a failed job carries the traceback and
\* the exception's type and message.
CE_C12 ==
    poll.last.status = "failed" =>
        (poll.last.traceback = "tb" /\ poll.last.meta = "exc")

\* C19 (as claimed): once a client was given a terminal view of a job, every
\* later answer for that job is the same view.
CE_C19 ==
    [][(PollAnswered /\ poll.last.status \in Terminal) =>
          poll.last' = poll.last]_vars

\* C13: a job that raised stays failed whatever its exception looks like,
\* the handling of the failure touches no other job and leaves the worker
\* in its loop, and with fair workers every job waiting in the queue
\* eventually is finished or failed.
HandlerStep(w) == wk[w].pc = "handler" /\ wk'[w].pc # "handler"

C13_FailureIsolation ==
    /\ [][\A w \in Workers : HandlerStep(w) =>
             /\ job'[wk[w].id].status = "failed"
             /\ \A j \in JobIds \ {wk[w].id} : job'[j] = job[j]
             /\ queue' = queue
             /\ wk'[w].pc \in {"idle", "quarantine"}]_vars
    /\ \A j \in JobIds :
          (j \in SeqToSet(queue)) ~> (job[j] # NoJob /\ job[j].status \in Terminal)

\* a job failed with an exception without arguments (its meta was never
\* rewritten and it was never quarantined), and a job submitted after it has
\* been processed to its end
W_C13 ==
    \E j, k \in JobIds :
        /\ j < k
        /\ job[j] # NoJob /\ job[k] # NoJob
        /\ job[j].status = "failed" /\ job[j].meta = "basic"
        /\ j \notin SeqToSet(failedq)
        /\ \A w \in Workers : wk[w].id # j
        /\ job[k].status \in Terminal

\* C14: the answer to a registration that was carried out lists every job
\* id the recipient has registered for so far, this registration's included,
\* and the recipient is in the subscriber set of each job id it named.
Answered(p) == mail.web[p].pc = "read" /\ mail'.web[p].pc = "idle"

C14_Registration ==
    [][\A p \in WebProcs : Answered(p) =>
          LET r == mail.web[p].recipient IN
          /\ mail'.web[p].resp.code = 200
          /\ mail'.web[p].resp.jobs = mail'.asked[r]
          /\ mail.web[p].job_ids \subseteq mail'.web[p].resp.jobs
          /\ \A j \in mail.web[p].job_ids : r \in mail'.recipients[j]]_vars

\* a registration was answered with job ids of two registrations: the
\* recipient's other registration is carried out and not answered yet, and
\* it named a job id this one did not
W_C14 ==
    \E p, q \in WebProcs :
        /\ p # q
        /\ mail.web[p].pc = "idle" /\ mail.web[p].resp.code = 200
        /\ mail.web[q].pc = "read"
        /\ mail.web[q].job_ids # {}
        /\ mail.web[q].job_ids \subseteq mail.web[p].resp.jobs
        /\ mail.web[p].resp.jobs = mail.asked[mail.web[q].recipient]
        /\ mail.web[p].resp.jobs # mail.web[q].job_ids

\* C15: a registration answered 400 leaves both indexes as they were.
Rejected(p) ==
    /\ mail.web[p].pc = "idle"
    /\ mail'.web[p].resp.code = 400
    /\ mail'.web[p] # mail.web[p]

C15_InvalidRecipient ==
    [][(\E p \in WebProcs : Rejected(p)) =>
          (mail'.jobs = mail.jobs /\ mail'.recipients = mail.recipients)]_vars

\* a registration was answered 400 while subscriptions exist
W_C15 ==
    \E p \in WebProcs, r \in Recipients :
        mail.web[p].resp.code = 400 /\ mail.jobs[r] # {}

\* C20: in every state, job id j is in the set of recipient r exactly when
\* r is in the set of j.
C20_IndexesConsistent ==
    \A r \in Recipients, j \in JobIds :
        j \in mail.jobs[r] <=> r \in mail.recipients[j]

\* two registrations are in progress at once, both carried out and neither
\* answered yet, and they share a job id
W_C20 ==
    \E p, q \in WebProcs :
        /\ p # q
        /\ mail.web[p].pc = "read" /\ mail.web[q].pc = "read"
        /\ mail.web[p].recipient # mail.web[q].recipient
        /\ mail.web[p].job_ids \cap mail.web[q].job_ids # {}

\* C16: a request outside the supported subset is answered 501 whether or
\* not the image exists, and 404 is the answer exactly to a request of the
\* supported subset for an image that does not exist.
ImageAnswered == img.code # 0

C16_UnsupportedFirst ==
    ImageAnswered =>
        /\ NotSupported(img.req) => img.code = 501
        /\ img.code = 404 <=> (~NotSupported(img.req) /\ ~img.req.exists)

\* a request outside the supported subset for an image that does not exist
\* was answered
W_C16 == ImageAnswered /\ NotSupported(img.req) /\ ~img.req.exists

\* C17: for the sizes of the supported grammar the query carries: nothing
\* for full and max, the width alone for 'w,', the height alone for ',h',
\* both for 'w,h'.  Numerals are written out independently of the parser.
Numerals == Strings(DigitChars, MaxLen)

RECURSIVE Pow10(_)
Pow10(k) == IF k = 0 THEN 1 ELSE 10 * Pow10(k - 1)

RECURSIVE PlaceSum(_, _)
PlaceSum(d, i) ==
    IF i > Len(d) THEN 0
    ELSE (IF d[i] = "1" THEN Pow10(Len(d) - i) ELSE 0) + PlaceSum(d, i + 1)

ValueOf(d) == PlaceSum(d, 1)

QueryBuilt == ImageAnswered /\ ~NotSupported(img.req) /\ img.req.exists

C17_SizeGrammar ==
    QueryBuilt =>
        LET size == img.req.size IN
        /\ size \in {<<"full">>, <<"max">>} =>
              (img.code # 500 /\ img.width = NoDim /\ img.height = NoDim)
        /\ \A w \in Numerals :
              size = w \o <<",">> =>
                 /\ img.code # 500
                 /\ img.width = Dim(ValueOf(w)) /\ img.height = NoDim
        /\ \A h \in Numerals :
              size = <<",">> \o h =>
                 /\ img.code # 500
                 /\ img.height = Dim(ValueOf(h)) /\ img.width = NoDim
        /\ \A w, h \in Numerals :
              size = w \o <<",">> \o h =>
                 /\ img.code # 500
                 /\ img.width = Dim(ValueOf(w))
                 /\ img.height = Dim(ValueOf(h))

\* a size 'w,h' with two different numbers was parsed
W_C17 ==
    /\ QueryBuilt
    /\ img.width.kind = "int" /\ img.height.kind = "int"
    /\ img.width.n > img.height.n /\ img.height.n > 0

\* C18 (as claimed): a size outside the grammar, for an existing image and
\* a request of the supported subset, is answered with a 4xx code.
WellFormed(size) ==
    \/ size \in {<<"full">>, <<"max">>}
    \/ \E w \in Numerals : size = w \o <<",">> \/ size = <<",">> \o w
    \/ \E w, h \in Numerals : size = w \o <<",">> \o h

CE_C18 ==
    (QueryBuilt /\ ~WellFormed(img.req.size)) => img.code \in 400..499

====
